---- MODULE Spec2Model ----
(***************************************************************************)
(* A model of the number-huarongdao (fifteen puzzle) board of              *)
(* src/src/num_hrd.rs: the struct NumHrd {size: u8, nums: Vec<Num>} and    *)
(* its public operations.  Vector indices are 0-based as in the source;    *)
(* the TLA+ sequence nums holds the cell of index i at position i + 1.     *)
(***************************************************************************)
EXTENDS Integers, Sequences, FiniteSets, TLC

VARIABLES
    size,   \* NumHrd.size
    nums,   \* NumHrd.nums, the value n of each Num, in vector order
    call,   \* the last call made on the board: operation and arguments
    ret,    \* what that call returned (or that it panicked)
    old,    \* nums as it was when that call was entered
    steps   \* number of calls made since construction

vars == <<size, nums, call, ret, old, steps>>

(* ---------------------------- bounds ----------------------------------- *)

\* Largest side length of the boards explored by Spec and SpecShuffle.
MaxSide == 3

\* Largest number of calls made on one board.
MaxSteps == 3

\* Largest number of zero_move calls of one random walk (SpecShuffle).
MaxWalk == 10

\* Largest side length get_dirction_index is applied to (SpecDirection).
MaxDirSide == 6

(* ------------------------- program constants --------------------------- *)

\* Number of values of the u8 type of size, of new's parameter and of the
\* coordinates of a point.
U8Mod == 256

Directions == {"Top", "Bottom", "Left", "Right"}

(* ------------------------------ helpers -------------------------------- *)

Some(x) == [tag |-> "Some", v |-> x]

None == [tag |-> "None", v |-> 0]

\* An indexing self.nums[n] with n out of bounds, or an arithmetic overflow
\* in a build with overflow checks: the thread panics.
Panicked == [tag |-> "Panic", v |-> 0]

Abs(x) == IF x < 0 THEN -x ELSE x

\* The vector element nums[i] (0-based).
At(ns, i) == ns[i + 1]

(* -------------------------------- Num ---------------------------------- *)

is_empty(n) == n = 0

(* ------------------------------- NumHrd -------------------------------- *)

\* The u8 product s * s of new overflows.
NewOverflows(s) == s * s >= U8Mod

\* new(s) where the product does not overflow, or wraps (a build without
\* overflow checks): nums_len = s * s in u8, then 1 .. nums_len - 1 are
\* pushed, then the blank.
New(s) ==
    LET nums_len == (s * s) % U8Mod
        pushed == IF nums_len >= 1 THEN nums_len - 1 ELSE 0
    IN  [size |-> s, nums |-> [i \in 1..pushed |-> i] \o <<0>>]

\* Mutant of is_neighbouring: any distance up to one row counts.
is_neighbouring_UpToSize(sz, one, other) ==
    LET diff == Abs(one - other)
    IN  diff >= 1 /\ diff <= sz

\* Mutant of is_neighbouring: the vertical case is forgotten.
is_neighbouring_HorizontalOnly(sz, one, other) ==
    LET diff == Abs(one - other)
    IN  diff = 1

\* Mutant of is_neighbouring: the absolute value is forgotten.
is_neighbouring_NoAbs(sz, one, other) ==
    LET diff == one - other
    IN  diff = 1 \/ diff = sz

is_neighbouring(sz, one, other) ==
    LET diff == Abs(one - other)
    IN  diff = 1 \/ diff = sz

num_by_index(ns, n) ==
    IF n > Len(ns) THEN None
    ELSE IF n < Len(ns) THEN Some(At(ns, n))
    ELSE Panicked

\* index_by_point where the u8 expression p.0 * size + p.1 overflows.
PointOverflows(sz, p) == p[1] * sz >= U8Mod \/ p[1] * sz + p[2] >= U8Mod

\* index_by_point, the u8 arithmetic wrapping.
index_by_point(sz, p) == (p[1] * sz + p[2]) % U8Mod

index_by_n(ns, n) ==
    IF \E k \in 1..Len(ns) : ns[k] = n
    THEN Some((CHOOSE k \in 1..Len(ns) : ns[k] = n /\ \A m \in 1..(k - 1) : ns[m] # n) - 1)
    ELSE None

\* Mutant of is_win: only the lengths are compared.
is_win_LenOnly(ns, sz) == Len(ns) = Len(New(sz).nums)

is_win(ns, sz) == ns = New(sz).nums

len(sz) == sz * sz

\* The index the scan loop of exchange leaves in one_i / other_i for the
\* value v: the last i with nums[i] == v, and 0 when there is none.
ScanIndex(ns, v) ==
    IF \E k \in 1..Len(ns) : ns[k] = v
    THEN (CHOOSE k \in 1..Len(ns) : ns[k] = v /\ \A m \in (k + 1)..Len(ns) : ns[m] # v) - 1
    ELSE 0

\* Mutant of the blank check of exchange: the first negation is dropped.
NeitherEmpty_FirstNotNegated(one, other) == is_empty(one) /\ ~is_empty(other)

\* The blank check of exchange: neither of the two tiles is the blank.
NeitherEmpty(one, other) == ~is_empty(one) /\ ~is_empty(other)

\* Mutant of the swap: temp is never written back.
SwapValues_NoWriteBack(ns, one_i, other_i) ==
    [ns EXCEPT ![one_i + 1] = At(ns, other_i)]

\* The three assignments that end exchange.
SwapValues(ns, one_i, other_i) ==
    LET temp == At(ns, one_i)
        first == [ns EXCEPT ![one_i + 1] = At(ns, other_i)]
    IN  [first EXCEPT ![other_i + 1] = temp]

\* Mutant of exchange: the two cells are swapped before the blank check.
exchange_SwapBeforeBlankCheck(ns, sz, one_index, other_index) ==
    LET one_opt == num_by_index(ns, one_index)
        other_opt == num_by_index(ns, other_index)
    IN  IF one_opt.tag = "Panic" \/ other_opt.tag = "Panic"
        THEN [r |-> "Panic", nums |-> ns]
        ELSE IF one_opt.tag = "None" \/ other_opt.tag = "None"
        THEN [r |-> "CannotExchangeNotNeighbouring", nums |-> ns]
        ELSE IF ~is_neighbouring(sz, one_index, other_index)
        THEN [r |-> "CannotExchangeNotNeighbouring", nums |-> ns]
        ELSE LET swapped == SwapValues(ns, ScanIndex(ns, one_opt.v), ScanIndex(ns, other_opt.v))
             IN  IF NeitherEmpty(one_opt.v, other_opt.v)
                 THEN [r |-> "CannotExchangeNoneZero", nums |-> swapped]
                 ELSE [r |-> "Ok", nums |-> swapped]

\* exchange: the result and the vector it leaves.  Both num_by_index calls
\* are made before either result is looked at.
exchange(ns, sz, one_index, other_index) ==
    LET one_opt == num_by_index(ns, one_index)
        other_opt == num_by_index(ns, other_index)
    IN  IF one_opt.tag = "Panic" \/ other_opt.tag = "Panic"
        THEN [r |-> "Panic", nums |-> ns]
        ELSE IF one_opt.tag = "None" \/ other_opt.tag = "None"
        THEN [r |-> "CannotExchangeNotNeighbouring", nums |-> ns]
        ELSE IF ~is_neighbouring(sz, one_index, other_index)
        THEN [r |-> "CannotExchangeNotNeighbouring", nums |-> ns]
        ELSE IF NeitherEmpty(one_opt.v, other_opt.v)
        THEN [r |-> "CannotExchangeNoneZero", nums |-> ns]
        ELSE IF one_index = other_index
        THEN [r |-> "Ok", nums |-> ns]
        ELSE [r |-> "Ok",
              nums |-> SwapValues(ns, ScanIndex(ns, one_opt.v), ScanIndex(ns, other_opt.v))]

\* Mutant of get_dirction_index: Left tests the index, not the column.
get_dirction_index_LeftByIndex(sz, index, d) ==
    CASE d = "Left" -> IF index = 0 THEN None ELSE Some(index - 1)
      [] d = "Right" -> IF (index % sz) + 1 = sz THEN None ELSE Some(index + 1)
      [] d = "Top" -> IF index \div sz = 0 THEN None ELSE Some(index - sz)
      [] d = "Bottom" -> IF index \div sz = sz - 1 THEN None ELSE Some(index + sz)

\* Mutant of get_dirction_index: the arithmetic of Top and Bottom is
\* swapped.
get_dirction_index_TopBottomSwapped(sz, index, d) ==
    CASE d = "Left" -> IF index % sz = 0 THEN None ELSE Some(index - 1)
      [] d = "Right" -> IF (index % sz) + 1 = sz THEN None ELSE Some(index + 1)
      [] d = "Top" -> IF index \div sz = 0 THEN None ELSE Some(index + sz)
      [] d = "Bottom" -> IF index \div sz = sz - 1 THEN None ELSE Some(index - sz)

\* Mutant of get_dirction_index: Right tests the end of the vector, not the
\* end of the row.
get_dirction_index_RightByIndex(sz, index, d) ==
    CASE d = "Left" -> IF index % sz = 0 THEN None ELSE Some(index - 1)
      [] d = "Right" -> IF index + 1 = sz * sz THEN None ELSE Some(index + 1)
      [] d = "Top" -> IF index \div sz = 0 THEN None ELSE Some(index - sz)
      [] d = "Bottom" -> IF index \div sz = sz - 1 THEN None ELSE Some(index + sz)

\* Mutant of get_dirction_index: Bottom compares the row with size, not
\* with size - 1.
get_dirction_index_BottomOffByOne(sz, index, d) ==
    CASE d = "Left" -> IF index % sz = 0 THEN None ELSE Some(index - 1)
      [] d = "Right" -> IF (index % sz) + 1 = sz THEN None ELSE Some(index + 1)
      [] d = "Top" -> IF index \div sz = 0 THEN None ELSE Some(index - sz)
      [] d = "Bottom" -> IF index \div sz = sz THEN None ELSE Some(index + sz)

get_dirction_index(sz, index, d) ==
    CASE d = "Left" -> IF index % sz = 0 THEN None ELSE Some(index - 1)
      [] d = "Right" -> IF (index % sz) + 1 = sz THEN None ELSE Some(index + 1)
      [] d = "Top" -> IF index \div sz = 0 THEN None ELSE Some(index - sz)
      [] d = "Bottom" -> IF index \div sz = sz - 1 THEN None ELSE Some(index + sz)

\* zero_move: an Err of exchange is propagated by the ? operator.
zero_move(ns, sz, d) ==
    LET zero_index_opt == index_by_n(ns, 0)
    IN  IF zero_index_opt.tag = "None"
        THEN [r |-> "ZeroNotFound", nums |-> ns]
        ELSE LET other_opt == get_dirction_index(sz, zero_index_opt.v, d)
             IN  IF other_opt.tag = "None"
                 THEN [r |-> "Ok(true)", nums |-> ns]
                 ELSE LET e == exchange(ns, sz, zero_index_opt.v, other_opt.v)
                      IN  IF e.r = "Ok"
                          THEN [r |-> "Ok(true)", nums |-> e.nums]
                          ELSE e

move_num(ns, sz, index) ==
    LET zero_index_opt == index_by_n(ns, 0)
    IN  IF zero_index_opt.tag = "None"
        THEN [r |-> "false", nums |-> ns]
        ELSE LET e == exchange(ns, sz, index, zero_index_opt.v)
             IN  IF e.r = "Ok" THEN [r |-> "true", nums |-> e.nums]
                 ELSE IF e.r = "Panic" THEN e
                 ELSE [r |-> "false", nums |-> e.nums]

(* ------------------------------ inputs --------------------------------- *)

\* Index arguments: every cell of the board, the index nums.len() itself
\* and one index beyond it.
Indices == 0..(len(size) + 1)

\* Coordinates of a point: the rows and columns of the board, the first
\* coordinate outside it, and u8 values whose product with a side of 4, 3
\* or 2 reaches the end of the u8 range.
PointCoords == (0..size) \cup {64, 85, 128}

(* --------------------------- state machine ----------------------------- *)

\* The board as constructed by NumHrd::new(s) for the sides explored.
Init ==
    /\ \E s \in 2..MaxSide : size = New(s).size /\ nums = New(s).nums
    /\ call = [op |-> "new", i |-> 0, j |-> 0, d |-> ""]
    /\ ret = [r |-> "Ok", v |-> 0]
    /\ old = <<>>
    /\ steps = 0

\* A panic unwinds out of the caller: no further call is made.
Alive == ret.r # "Panic"

\* The bookkeeping of one call: what was called, what it returned and the
\* vector it left.
Record(o, i, j, d, r, v, ns) ==
    /\ call' = [op |-> o, i |-> i, j |-> j, d |-> d]
    /\ ret' = [r |-> r, v |-> v]
    /\ old' = nums
    /\ nums' = ns
    /\ steps' = steps + 1
    /\ UNCHANGED size

Exchange(i, j) ==
    /\ Alive
    /\ steps < MaxSteps
    /\ LET e == exchange(nums, size, i, j)
       IN  Record("exchange", i, j, "", e.r, 0, e.nums)

ZeroMoveCall(d) ==
    /\ Alive
    /\ LET z == zero_move(nums, size, d)
       IN  Record("zero_move", 0, 0, d, z.r, 0, z.nums)

ZeroMove(d) == steps < MaxSteps /\ ZeroMoveCall(d)

MoveNum(index) ==
    /\ Alive
    /\ steps < MaxSteps
    /\ LET m == move_num(nums, size, index)
       IN  Record("move_num", index, 0, "", m.r, 0, m.nums)

\* move_num_by_point: where the u8 index computation overflows, a build
\* with overflow checks panics and any other build goes on with the
\* wrapped index.
MoveNumByPoint(p) ==
    /\ Alive
    /\ steps < MaxSteps
    /\ \/ /\ PointOverflows(size, p)
          /\ Record("move_num_by_point", p[1], p[2], "", "Panic", 0, nums)
       \/ LET m == move_num(nums, size, index_by_point(size, p))
          IN  Record("move_num_by_point", p[1], p[2], "", m.r, 0, m.nums)

\* num_by_point: index_by_point, with its u8 overflow, then num_by_index.
NumByPoint(p) ==
    /\ Alive
    /\ steps < MaxSteps
    /\ \/ /\ PointOverflows(size, p)
          /\ Record("num_by_point", p[1], p[2], "", "Panic", 0, nums)
       \/ LET o == num_by_index(nums, index_by_point(size, p))
          IN  Record("num_by_point", p[1], p[2], "", o.tag, o.v, nums)

NumByIndex(n) ==
    /\ Alive
    /\ steps < MaxSteps
    /\ LET o == num_by_index(nums, n)
       IN  Record("num_by_index", n, 0, "", o.tag, o.v, nums)

IsWin ==
    /\ Alive
    /\ steps < MaxSteps
    /\ Record("is_win", 0, 0, "", IF is_win(nums, size) THEN "true" ELSE "false", 0, nums)

Next ==
    \/ \E i \in Indices, j \in Indices : Exchange(i, j)
    \/ \E d \in Directions : ZeroMove(d)
    \/ \E index \in Indices : MoveNum(index)
    \/ \E p \in PointCoords \X PointCoords : MoveNumByPoint(p)
    \/ \E p \in PointCoords \X PointCoords : NumByPoint(p)
    \/ \E n \in Indices : NumByIndex(n)
    \/ IsWin

Spec == Init /\ [][Next]_vars

\* The shuffle's random walk: zero_move calls only, the direction of each
\* drawn freely.
WalkStep(d) == steps < MaxWalk /\ ZeroMoveCall(d)

NextShuffle == \E d \in Directions : WalkStep(d)

SpecShuffle == Init /\ [][NextShuffle]_vars

\* The player's moves only: move_num and move_num_by_point, interleaved
\* with zero_move.
NextPlay ==
    \/ \E d \in Directions : ZeroMove(d)
    \/ \E index \in Indices : MoveNum(index)
    \/ \E p \in PointCoords \X PointCoords : MoveNumByPoint(p)

SpecPlay == Init /\ [][NextPlay]_vars

\* get_dirction_index alone, applied once to every in-range index and
\* every direction of a freshly constructed board.
InitDirection ==
    /\ \E s \in 2..MaxDirSide : size = New(s).size /\ nums = New(s).nums
    /\ call = [op |-> "new", i |-> 0, j |-> 0, d |-> ""]
    /\ ret = [r |-> "Ok", v |-> 0]
    /\ old = <<>>
    /\ steps = 0

DirectionIndex(index, d) ==
    /\ steps = 0
    /\ LET o == get_dirction_index(size, index, d)
       IN  Record("get_dirction_index", index, 0, d, o.tag, o.v, nums)

NextDirection ==
    \E index \in 0..(len(size) - 1), d \in Directions : DirectionIndex(index, d)

SpecDirection == InitDirection /\ [][NextDirection]_vars

\* Construction alone, for every side the u8 parameter can hold.
InitNew ==
    /\ size = 0
    /\ nums = <<>>
    /\ call = [op |-> "none", i |-> 0, j |-> 0, d |-> ""]
    /\ ret = [r |-> "none", v |-> 0]
    /\ old = <<>>
    /\ steps = 0

\* NumHrd::new(s): where s * s overflows, a build with overflow checks
\* panics and any other build goes on with the wrapped product.
Construct(s) ==
    /\ call.op = "none"
    /\ call' = [op |-> "new", i |-> s, j |-> 0, d |-> ""]
    /\ UNCHANGED <<old, steps>>
    /\ \/ /\ NewOverflows(s)
          /\ ret' = [r |-> "Panic", v |-> 0]
          /\ UNCHANGED <<size, nums>>
       \/ /\ ret' = [r |-> "Ok", v |-> 0]
          /\ size' = New(s).size
          /\ nums' = New(s).nums

NextNew == \E s \in 0..(U8Mod - 1) : Construct(s)

SpecNew == InitNew /\ [][NextNew]_vars

(* ------------------------- vocabulary of the claims -------------------- *)

\* The solved sequence [1, 2, ..., sz * sz - 1, 0].
SolvedSeq(sz) == [k \in 1..(sz * sz) |-> IF k < sz * sz THEN k ELSE 0]

InRange(i) == i < size * size

Row(i) == i \div size

Col(i) == i % size

\* Directly above/below or directly left/right of each other in the grid.
Neighbouring2D(i, j) ==
    \/ Col(i) = Col(j) /\ Abs(Row(i) - Row(j)) = 1
    \/ Row(i) = Row(j) /\ Abs(Col(i) - Col(j)) = 1

\* Number of cells of ns that hold v.
Occurrences(ns, v) == Cardinality({k \in 1..Len(ns) : ns[k] = v})

\* The index of the blank in a vector that holds one.
BlankIndex(ns) == (CHOOSE k \in 1..Len(ns) : ns[k] = 0) - 1

\* Position of a value in the solved order (the blank comes last).
SolvedPos(ns, v) == IF v = 0 THEN Len(ns) ELSE v

\* The inversions of ns relative to the solved order.
Inversions(ns) ==
    Cardinality({ab \in (1..Len(ns)) \X (1..Len(ns)) :
                    ab[1] < ab[2] /\ SolvedPos(ns, ns[ab[1]]) > SolvedPos(ns, ns[ab[2]])})

\* Rows plus columns between the blank and the bottom-right cell.
BlankDistance(ns) ==
    (size - 1 - Row(BlankIndex(ns))) + (size - 1 - Col(BlankIndex(ns)))

\* The cell at index has a cell next to it in direction d in the grid.
HasGridNeighbour(index, d) ==
    CASE d = "Left" -> Col(index) > 0
      [] d = "Right" -> Col(index) < size - 1
      [] d = "Top" -> Row(index) > 0
      [] d = "Bottom" -> Row(index) < size - 1

\* The index of that cell: same row for Left and Right, same column for Top
\* and Bottom.
GridNeighbour(index, d) ==
    CASE d = "Left" -> Row(index) * size + (Col(index) - 1)
      [] d = "Right" -> Row(index) * size + (Col(index) + 1)
      [] d = "Top" -> (Row(index) - 1) * size + Col(index)
      [] d = "Bottom" -> (Row(index) + 1) * size + Col(index)

\* The index one step from index in direction d, by offset.
StepIndex(index, d) ==
    CASE d = "Left" -> index - 1
      [] d = "Right" -> index + 1
      [] d = "Top" -> index - size
      [] d = "Bottom" -> index + size

Opposite(d) ==
    CASE d = "Left" -> "Right"
      [] d = "Right" -> "Left"
      [] d = "Top" -> "Bottom"
      [] d = "Bottom" -> "Top"

ExchangeErrors == {"CannotExchangeNotNeighbouring", "CannotExchangeNoneZero"}

(* -------------------------------- claims ------------------------------- *)

\* C1: after any sequence of exchange, zero_move, move_num and
\* move_num_by_point calls, failed or not, nums has side * side entries and
\* holds each of the values 0 .. side * side - 1 exactly once.
C1_TileMultiset ==
    /\ Len(nums) = size * size
    /\ \A v \in 0..(size * size - 1) : Occurrences(nums, v) = 1

\* C1 witness: a second or later call moved a tile.
C1_Witness ==
    /\ steps >= 2
    /\ call.op \in {"exchange", "move_num", "move_num_by_point"}
    /\ ret.r \in {"Ok", "true"}
    /\ nums # old

\* C2: every board of a walk of zero_move calls is solvable: the parity of
\* the permutation equals the parity of the blank's distance from the
\* bottom-right cell.
C2_WalkSolvable == Inversions(nums) % 2 = BlankDistance(nums) % 2

\* C2 witness: a walk of five or more moves whose last move slid a tile and
\* left an odd permutation.
C2_Witness ==
    /\ steps >= 5
    /\ call.op = "zero_move"
    /\ nums # old
    /\ Inversions(nums) % 2 = 1

\* C3: exchange returns Ok, and move_num true, only for two cells that are
\* neighbours in the grid.
C3_OnlyGridNeighbours ==
    /\ (call.op = "exchange" /\ ret.r = "Ok") => Neighbouring2D(call.i, call.j)
    /\ (call.op = "move_num" /\ ret.r = "true") => Neighbouring2D(call.i, BlankIndex(old))

\* C4: is_win is true of the board new returns, and afterwards is true
\* exactly when nums is the solved sequence.
C4_IsWinIffSolved ==
    call.op = "is_win" =>
        /\ ret.r = "true" <=> nums = SolvedSeq(size)
        /\ steps = 1 => ret.r = "true"

\* C4 witness: is_win answered false on a board that tiles were moved on.
C4_Witness == call.op = "is_win" /\ ret.r = "false" /\ nums # SolvedSeq(size)

\* C5: for every side in 2..=255, new returns the solved board of
\* side * side entries.
C5_NewEverySide ==
    (call.op = "new" /\ call.i >= 2) =>
        /\ ret.r = "Ok"
        /\ size = call.i
        /\ Len(nums) = call.i * call.i
        /\ nums = SolvedSeq(call.i)

\* C6: exchange(i, i) of a valid index returns Ok and leaves nums as it was.
C6_ExchangeSelf ==
    (call.op = "exchange" /\ call.i = call.j /\ InRange(call.i)) =>
        ret.r = "Ok" /\ nums = old

\* C7: exchange of two distinct in-range indices whose difference is neither
\* 1 nor side returns CannotExchangeNotNeighbouring, whatever the tiles.
C7_NotNeighbouringFirst ==
    (/\ call.op = "exchange"
     /\ call.i # call.j
     /\ InRange(call.i) /\ InRange(call.j)
     /\ Abs(call.i - call.j) \notin {1, size}) =>
        ret.r = "CannotExchangeNotNeighbouring"

\* C7 witness: such an exchange was asked for with the blank as one of the
\* two tiles.
C7_Witness ==
    /\ call.op = "exchange"
    /\ call.i # call.j
    /\ InRange(call.i) /\ InRange(call.j)
    /\ Abs(call.i - call.j) \notin {1, size}
    /\ (At(old, call.i) = 0 \/ At(old, call.j) = 0)
    /\ ret.r = "CannotExchangeNotNeighbouring"

\* C8: exchange of two in-range indices that differ by 1 or by side, neither
\* holding the blank, returns CannotExchangeNoneZero.
C8_NoneZero ==
    (/\ call.op = "exchange"
     /\ InRange(call.i) /\ InRange(call.j)
     /\ Abs(call.i - call.j) \in {1, size}
     /\ At(old, call.i) # 0 /\ At(old, call.j) # 0) =>
        ret.r = "CannotExchangeNoneZero"

\* C8 witness: such an exchange was asked for on a board that is no longer
\* the solved one.
C8_Witness ==
    /\ call.op = "exchange"
    /\ InRange(call.i) /\ InRange(call.j)
    /\ Abs(call.i - call.j) \in {1, size}
    /\ At(old, call.i) # 0 /\ At(old, call.j) # 0
    /\ old # SolvedSeq(size)
    /\ ret.r = "CannotExchangeNoneZero"

\* C9: num_by_index(n) returns Some(nums[n]) for n < side * side and None
\* for every other n, and never panics.
C9_NumByIndexTotal ==
    call.op = "num_by_index" =>
        IF InRange(call.i)
        THEN ret = [r |-> "Some", v |-> At(nums, call.i)]
        ELSE ret.r = "None"

\* C10: exchange with an index out of range returns an Err, move_num with
\* an index out of range returns false, neither panics, and nums stays as
\* it was.
C10_OutOfRangeRejected ==
    /\ (call.op = "exchange" /\ (~InRange(call.i) \/ ~InRange(call.j))) =>
           ret.r \in ExchangeErrors /\ nums = old
    /\ (call.op = "move_num" /\ ~InRange(call.i)) =>
           ret.r = "false" /\ nums = old

\* C11: a point with row >= side or col >= side is rejected: num_by_point
\* returns None and move_num_by_point returns false and leaves nums as it
\* was.
C11_OutOfRangePointRejected ==
    /\ (call.op = "num_by_point" /\ (call.i >= size \/ call.j >= size)) =>
           ret.r = "None"
    /\ (call.op = "move_num_by_point" /\ (call.i >= size \/ call.j >= size)) =>
           ret.r = "false" /\ nums = old

\* C12: with the blank at z and a cell t in direction d from it in the grid,
\* zero_move(d) returns Ok(true), leaves the blank at t and the tile that
\* was at t at z, and changes no other cell.
C12_ZeroMoveSlides ==
    (call.op = "zero_move" /\ HasGridNeighbour(BlankIndex(old), call.d)) =>
        LET z == BlankIndex(old)
            t == GridNeighbour(z, call.d)
        IN  /\ ret.r = "Ok(true)"
            /\ Len(nums) = Len(old)
            /\ At(nums, t) = 0
            /\ At(nums, z) = At(old, t)
            /\ \A k \in 0..(Len(old) - 1) : k \notin {z, t} => At(nums, k) = At(old, k)

\* C12 witness: on the side-3 board, Left then Top from the solved board.
C12_Witness ==
    /\ size = 3
    /\ steps = 2
    /\ call.op = "zero_move" /\ call.d = "Top"
    /\ old = <<1, 2, 3, 4, 5, 6, 7, 0, 8>>
    /\ nums = <<1, 2, 3, 4, 0, 6, 7, 5, 8>>

\* C13: with the blank on the grid's edge in direction d, zero_move(d)
\* returns Ok(true) and leaves nums as it was.
C13_ZeroMoveAtEdge ==
    (call.op = "zero_move" /\ ~HasGridNeighbour(BlankIndex(old), call.d)) =>
        ret.r = "Ok(true)" /\ nums = old

\* C13 witness: the blank, moved away from its corner, was sent against the
\* right edge from the first row.
C13_Witness ==
    /\ call.op = "zero_move" /\ call.d = "Right"
    /\ ~HasGridNeighbour(BlankIndex(old), "Right")
    /\ Row(BlankIndex(old)) = 0
    /\ ret.r = "Ok(true)"

\* C14: get_dirction_index(index, d) of an in-range index is None exactly
\* when the cell has no grid neighbour in direction d, and is otherwise the
\* in-range index one step away in the same row (Left, Right) or the same
\* column (Top, Bottom).
C14_DirectionIndex ==
    call.op = "get_dirction_index" =>
        IF HasGridNeighbour(call.i, call.d)
        THEN /\ ret.r = "Some"
             /\ ret.v = StepIndex(call.i, call.d)
             /\ ret.v = GridNeighbour(call.i, call.d)
             /\ ret.v >= 0 /\ InRange(ret.v)
             /\ call.d \in {"Left", "Right"} => Row(ret.v) = Row(call.i)
             /\ call.d \in {"Top", "Bottom"} => Col(ret.v) = Col(call.i)
        ELSE ret.r = "None"

\* C14 witness: the last cell of the side-3 board has nothing to its right.
C14_Witness ==
    /\ call.op = "get_dirction_index"
    /\ size = 3 /\ call.i = 8 /\ call.d = "Right"
    /\ ret.r = "None"

\* C15: an exchange that returns an Err, and a move_num that returns false,
\* leave nums as it was.
C15_FailureLeavesBoard ==
    /\ (call.op = "exchange" /\ ret.r \in ExchangeErrors) => nums = old
    /\ (call.op = "move_num" /\ ret.r = "false") => nums = old

\* C15 witness: exchange(0, 8) on the solved side-3 board is rejected and
\* the blank is still at index 8.
C15_Witness ==
    /\ size = 3
    /\ call.op = "exchange" /\ call.i = 0 /\ call.j = 8
    /\ old = SolvedSeq(3)
    /\ ret.r \in ExchangeErrors
    /\ At(nums, 8) = 0

\* C16: in every board reached by any sequence of calls, zero_move returns
\* Ok(true) for every direction: never ZeroNotFound, never an Err of
\* exchange.
C16_ZeroMoveNeverFails == call.op = "zero_move" => ret.r = "Ok(true)"

\* C16 witness: zero_move slid a tile on a board that earlier calls had
\* taken off the boards a walk of zero_move calls reaches.
C16_Witness ==
    /\ call.op = "zero_move"
    /\ ret.r = "Ok(true)"
    /\ nums # old
    /\ Inversions(old) % 2 # BlankDistance(old) % 2

\* C17: for the sides 0 and 1, new either rejects the side or returns a
\* board of side * side entries holding exactly one blank and each of the
\* values 0 .. side * side - 1 once.
C17_DegenerateSides ==
    (call.op = "new" /\ call.i \in {0, 1}) =>
        \/ ret.r # "Ok"
        \/ /\ Len(nums) = call.i * call.i
           /\ Occurrences(nums, 0) = 1
           /\ \A k \in 1..Len(nums) : nums[k] \in 0..(call.i * call.i - 1)
           /\ \A v \in 0..(call.i * call.i - 1) : Occurrences(nums, v) = 1

\* C18: every board the player reaches with move_num, move_num_by_point and
\* zero_move is solvable, that is, is a board a walk of zero_move calls
\* reaches; every such board has the permutation parity equal to the parity
\* of the blank's distance from the bottom-right cell (C2).
C18_PlayerKeepsSolvable ==
    call.op \in {"new", "zero_move", "move_num", "move_num_by_point"} =>
        Inversions(nums) % 2 = BlankDistance(nums) % 2

\* C19: moves are reversible.  After a move_num(i) that returned true with
\* the blank at z, an immediately following move_num(z) returns true and
\* restores nums; after a zero_move(d) that moved the blank, an immediately
\* following zero_move in the opposite direction restores nums.
C19_MovesReversible ==
    [][/\ (/\ call.op = "move_num" /\ ret.r = "true"
           /\ call'.op = "move_num" /\ call'.i = BlankIndex(old)) =>
              (ret'.r = "true" /\ nums' = old)
       /\ (/\ call.op = "zero_move" /\ nums # old
           /\ call'.op = "zero_move" /\ call'.d = Opposite(call.d)) =>
              nums' = old]_vars

\* C19 witness: the second call, a move_num of the cell the blank started
\* in, returned true and restored the solved board the first move had left.
C19_Witness ==
    /\ steps = 2
    /\ call.op = "move_num" /\ call.i = size * size - 1
    /\ ret.r = "true"
    /\ old # nums
    /\ nums = SolvedSeq(size)

====
